---- MODULE Spec2Model ----
(***************************************************************************)
(* Terminal Session Orchestrator of req-auto-mgmt (terminal-service).      *)
(* The state is the PtyManager registry, the pty processes it spawned, the *)
(* files of the session manager (metadata and logs), the WebSocket viewer  *)
(* channels of index.ts and the pending continuations of the event loop.   *)
(* Every action is one handler of the single-threaded event loop, run to   *)
(* completion.                                                             *)
(***************************************************************************)
EXTENDS Integers, Sequences, FiniteSets, TLC

\* ptyManager.ts:19
MAX_PARALLEL_SESSIONS == 5

\* Capacity of the output buffer in chunks. The source keeps 10000
\* (ptyManager.ts:96); the model keeps this many so that eviction happens.
BufferCap == 2

\* Session ids generated in one behaviour of Spec and of SpecCapacity.
MaxSessions == 2
MaxIds == 6
\* Sessions that may leave `running` in one behaviour of SpecCapacity.
MaxEnded == 1
\* Largest clock value of Spec (Date.now() is modelled by `now`).
MaxTime == 1
\* Chunks a process emits in one behaviour.
MaxChunks == 4
\* Writes, and resizes, a process accepts in one behaviour of SpecInput.
MaxWrites == 2
\* Longest initialInput of a create request.
MaxLen == 2
\* Days the clock of SpecCleanup may advance.
MaxDays == 2

\* An optional field that is not set (completedAt?, exitCode?).
Undefined == -1

\* Exit codes a process reports.
ExitCodes == {0, 1}
\* Data of the n-th chunk emitted: a string, as the sequence of its characters. The
\* code never looks into a chunk, so chunks are told apart by their number.
Chunk(n) == <<n>>
\* The viewer connections (WebSocket) opened in one behaviour.
Viewers == {1, 2}

VARIABLES
    instances,          \* PtyManager.instances: id -> [session, outputBuffer]
    pty,                \* the spawned processes: id -> [alive, signals, writes, resizes, injected]
    nextId,             \* ids generated so far by uuidv4()
    now,                \* Date.now()
    timers,             \* ids whose delayed command write (setTimeout) is pending
    meta,               \* session_<id>.json files: id -> session record
    logs,               \* session_<id>.log files: id -> text
    sessionConnections, \* index.ts sessionConnections: id -> set of viewers
    ws,                 \* viewer sockets: viewer -> [session, readyState, inbox, ...]
    pendingExit,        \* exit handlers suspended at `await notifyTaskCompleted`
    notified,           \* calls of notifyTaskCompleted per session id
    emitted,            \* every chunk each process has emitted, in order
    lastOp,             \* the last request served and its result
    up,                 \* the service process is running
    renderer            \* desktop: the terminal view and its IPC channels

vars == <<instances, pty, nextId, now, timers, meta, logs, sessionConnections,
          ws, pendingExit, notified, emitted, lastOp, up, renderer>>

registryVars == <<instances, pty, nextId, timers>>
diskVars == <<meta, logs>>
wsVars == <<sessionConnections, ws>>
\* What only the service has: files, viewer sockets, webhook notifications.
serviceVars == <<meta, logs, sessionConnections, ws, pendingExit, notified>>

----------------------------------------------------------------------------
\* Helpers on maps (functions whose domain is the set of keys).

MapSet(m, k, v) == [x \in (DOMAIN m) \cup {k} |-> IF x = k THEN v ELSE m[x]]
MapDelete(m, k) == [x \in (DOMAIN m) \ {k} |-> m[x]]
EmptyMap == [x \in {} |-> 0]

RECURSIVE Join(_)
\* Array.prototype.join(''): the concatenation of the chunks.
Join(chunks) ==
    IF chunks = <<>> THEN <<>> ELSE Head(chunks) \o Join(Tail(chunks))

NoOp == [op |-> "none", id |-> 0, ok |-> TRUE, code |-> 0]
Result(op, id, ok, code) == [op |-> op, id |-> id, ok |-> ok, code |-> code]

----------------------------------------------------------------------------
\* PtyManager (services/ptyManager.ts)

Resident == DOMAIN instances

getActiveSessionCount ==
    Cardinality({i \in Resident : instances[i].session.status = "running"})

canCreateSessionOff == getActiveSessionCount <= MAX_PARALLEL_SESSIONS
canCreateSession == getActiveSessionCount < MAX_PARALLEL_SESSIONS

NewSession(id) ==
    [status |-> "running", createdAt |-> now,
     completedAt |-> Undefined, exitCode |-> Undefined]

\* createSession: the registry (instances, pty, nextId, timers) after the call,
\* and the id it returns (0 for null). spawnOk: pty.spawn did not throw.
createSessionLeak(spawnOk) ==
    IF ~canCreateSession
    THEN [instances |-> instances, pty |-> pty, nextId |-> nextId,
          timers |-> timers, id |-> 0]
    ELSE LET id == nextId + 1 IN
         IF ~spawnOk
         THEN [instances |-> MapSet(instances, id,
                               [session |-> NewSession(id), outputBuffer |-> <<>>]),
               pty |-> pty, nextId |-> id, timers |-> timers, id |-> 0]
         ELSE [instances |-> MapSet(instances, id,
                               [session |-> NewSession(id), outputBuffer |-> <<>>]),
               pty |-> MapSet(pty, id, [alive |-> TRUE, signals |-> 0, writes |-> 0, resizes |-> 0,
                                   injected |-> <<>>]),
               nextId |-> id,
               timers |-> timers \cup {id},
               id |-> id]

createSession(spawnOk) ==
    IF ~canCreateSession
    THEN [instances |-> instances, pty |-> pty, nextId |-> nextId,
          timers |-> timers, id |-> 0]
    ELSE LET id == nextId + 1 IN
         IF ~spawnOk
         THEN [instances |-> instances, pty |-> pty, nextId |-> id,
               timers |-> timers, id |-> 0]
         ELSE [instances |-> MapSet(instances, id,
                               [session |-> NewSession(id), outputBuffer |-> <<>>]),
               pty |-> MapSet(pty, id, [alive |-> TRUE, signals |-> 0, writes |-> 0, resizes |-> 0,
                                   injected |-> <<>>]),
               nextId |-> id,
               timers |-> timers \cup {id},
               id |-> id]

IsRunning(inst, id) == id \in DOMAIN inst /\ inst[id].session.status = "running"

\* killSession: the session record after the call. node-pty's kill() swallows
\* signal-delivery errors, so the catch branch (lines 210-213) is not taken.
killedSession(s) ==
    IF s.status = "running"
    THEN [s EXCEPT !.status = "failed", !.completedAt = now]
    ELSE s

\* killSession: the process after the call (pty.kill() sends one signal).
killedPtyResend(inst, p, id) ==
    IF id \in DOMAIN inst
    THEN [p EXCEPT ![id].signals = @ + 1]
    ELSE p

killedPty(inst, p, id) ==
    IF IsRunning(inst, id)
    THEN [p EXCEPT ![id].signals = @ + 1]
    ELSE p

killedInstancesDrop(inst, id) == MapDelete(inst, id)

killedInstances(inst, id) ==
    IF id \in DOMAIN inst
    THEN [inst EXCEPT ![id].session = killedSession(@)]
    ELSE inst

killSessionResult(inst, id) == id \in DOMAIN inst

\* writeToSession (lines 161-174). throws: ptyProcess.write throws.
writeToSessionResult(inst, id, throws) == IsRunning(inst, id) /\ ~throws

writtenPtyAlive(inst, p, id, throws) ==
    IF id \in DOMAIN inst /\ p[id].alive /\ ~throws
    THEN [p EXCEPT ![id].writes = @ + 1]
    ELSE p

writtenPty(inst, p, id, throws) ==
    IF IsRunning(inst, id) /\ ~throws
    THEN [p EXCEPT ![id].writes = @ + 1]
    ELSE p

\* resizeSession (lines 179-192). throws: ptyProcess.resize throws.
resizeSessionResult(inst, id, throws) == IsRunning(inst, id) /\ ~throws

resizedPty(inst, p, id, throws) ==
    IF IsRunning(inst, id) /\ ~throws
    THEN [p EXCEPT ![id].resizes = @ + 1]
    ELSE p

removedInstancesKeep(inst, id) == killedInstances(inst, id)

\* removeSession: kill when running, then instances.delete.
removedInstances(inst, id) == MapDelete(killedInstances(inst, id), id)

shutdownPtyAll(inst, p, ids) ==
    [i \in DOMAIN p |-> IF i \in ids THEN [p[i] EXCEPT !.signals = @ + 1] ELSE p[i]]

\* shutdown: killSession for every instance, then instances.clear().
RECURSIVE shutdownPty(_, _, _)
shutdownPty(inst, p, ids) ==
    IF ids = {} THEN p
    ELSE LET id == CHOOSE i \in ids : TRUE IN
         shutdownPty(inst, killedPty(inst, p, id), ids \ {id})

----------------------------------------------------------------------------
\* Session manager (services/sessionManager.ts)

saveSessionMetaOnce(m, id, session) == IF id \in DOMAIN m THEN m ELSE MapSet(m, id, session)

saveSessionMeta(m, id, session) == MapSet(m, id, session)

appendSessionLogOverwrite(l, id, data) == MapSet(l, id, data)

appendSessionLog(l, id, data) ==
    IF id \in DOMAIN l THEN [l EXCEPT ![id] = @ \o data] ELSE MapSet(l, id, data)

readSessionLog(id) == IF id \in DOMAIN logs THEN logs[id] ELSE <<>>

deleteSessionLog(m, id) == MapDelete(m, id)

----------------------------------------------------------------------------
\* 24 * 60 * 60 * 1000 (sessionManager.ts:153)
DAY_MS == 24 * 60 * 60 * 1000

cleanupCutoff(daysToKeep) == now - daysToKeep * DAY_MS

\* cleanupOldLogs: the sessions whose files it deletes.
cleanupVictims(m, daysToKeep) ==
    {id \in DOMAIN m : m[id].createdAt < cleanupCutoff(daysToKeep)}

Without(m, ids) == [x \in (DOMAIN m) \ ids |-> m[x]]

----------------------------------------------------------------------------
\* WebSocket fan-out (index.ts)

getSessionOutput(id) ==
    IF id \in Resident THEN Join(instances[id].outputBuffer) ELSE <<>>

OutputMsg(data) == [type |-> "output", data |-> data, exitCode |-> Undefined]
ExitMsg(code) == [type |-> "exit", data |-> <<>>, exitCode |-> code]

Connections(id) ==
    IF id \in DOMAIN sessionConnections THEN sessionConnections[id] ELSE {}

\* broadcastToSession: ws.send to every connection of the session that is OPEN.
broadcastToSession(w, id, msg) ==
    [v \in Viewers |->
        IF v \in Connections(id) /\ w[v].readyState = "OPEN"
        THEN [w[v] EXCEPT !.inbox = Append(@, msg)]
        ELSE w[v]]

----------------------------------------------------------------------------
\* Initial state: the service has started, nothing has been created.

NewSocket ==
    [session |-> 0, readyState |-> "NEW", inbox |-> <<>>,
     attachAt |-> 0, attachResident |-> FALSE]

\* The terminal view of the desktop renderer before it is mounted: no session, no
\* IPC message in flight, nothing written to the terminal.
NewRenderer ==
    [sessionId |-> 0, mounted |-> "no", toMain |-> <<>>, events |-> <<>>,
     reply |-> <<>>, screen |-> <<>>]

Init ==
    /\ instances = EmptyMap
    /\ pty = EmptyMap
    /\ nextId = 0
    /\ now = 0
    /\ timers = {}
    /\ meta = EmptyMap
    /\ logs = EmptyMap
    /\ sessionConnections = EmptyMap
    /\ ws = [v \in Viewers |-> NewSocket]
    /\ pendingExit = {}
    /\ notified = EmptyMap
    /\ emitted = EmptyMap
    /\ lastOp = NoOp
    /\ up = TRUE
    /\ renderer = NewRenderer

Emitted(id) == IF id \in DOMAIN emitted THEN emitted[id] ELSE <<>>
Notified(id) == IF id \in DOMAIN notified THEN notified[id] ELSE 0
TotalEmitted == LET RECURSIVE Sum(_)
                    Sum(ids) == IF ids = {} THEN 0
                                ELSE LET i == CHOOSE x \in ids : TRUE
                                     IN Len(emitted[i]) + Sum(ids \ {i})
                IN Sum(DOMAIN emitted)

----------------------------------------------------------------------------
\* HTTP routes (routes/index.ts)

\* POST /api/sessions. valid: the body has cwd and aiTool.
PostSessions(valid, spawnOk) ==
    /\ up
    /\ IF ~valid
       THEN /\ lastOp' = Result("create", 0, FALSE, 400)
            /\ UNCHANGED <<registryVars, meta>>
       ELSE IF ~canCreateSession
       THEN /\ lastOp' = Result("create", 0, FALSE, 429)
            /\ UNCHANGED <<registryVars, meta>>
       ELSE LET r == createSession(spawnOk) IN
            /\ instances' = r.instances
            /\ pty' = r.pty
            /\ nextId' = r.nextId
            /\ timers' = r.timers
            /\ IF r.id = 0
               THEN /\ lastOp' = Result("create", 0, FALSE, 500)
                    /\ meta' = meta
               ELSE /\ lastOp' = Result("create", r.id, TRUE, 200)
                    /\ meta' = saveSessionMeta(meta, r.id, r.instances[r.id].session)
    /\ UNCHANGED <<renderer, now, logs, wsVars, pendingExit, notified, emitted, up>>

\* POST /api/sessions/:id/kill
PostKill(id) ==
    /\ up
    /\ instances' = killedInstances(instances, id)
    /\ pty' = killedPty(instances, pty, id)
    /\ lastOp' = IF killSessionResult(instances, id)
                 THEN Result("kill", id, TRUE, 200)
                 ELSE Result("kill", id, FALSE, 404)
    /\ UNCHANGED <<renderer, nextId, now, timers, diskVars, wsVars, pendingExit, notified,
                   emitted, up>>

\* DELETE /api/sessions/:id: removeSession, then deleteSessionLog.
DeleteSession(id) ==
    /\ up
    /\ instances' = removedInstances(instances, id)
    /\ pty' = killedPty(instances, pty, id)
    /\ meta' = deleteSessionLog(meta, id)
    /\ logs' = deleteSessionLog(logs, id)
    /\ lastOp' = Result("delete", id, TRUE, 200)
    /\ UNCHANGED <<renderer, nextId, now, timers, wsVars, pendingExit, notified, emitted, up>>

\* POST /api/sessions/:id/input. hasData: the body has data.
PostInput(id, hasData, throws) ==
    /\ up
    /\ IF ~hasData
       THEN /\ lastOp' = Result("input", id, FALSE, 400)
            /\ pty' = pty
       ELSE /\ pty' = writtenPty(instances, pty, id, throws)
            /\ lastOp' = IF writeToSessionResult(instances, id, throws)
                         THEN Result("input", id, TRUE, 200)
                         ELSE Result("input", id, FALSE, 404)
    /\ UNCHANGED <<renderer, instances, nextId, now, timers, diskVars, wsVars, pendingExit,
                   notified, emitted, up>>

\* POST /api/sessions/:id/resize. hasSize: the body has cols and rows.
PostResize(id, hasSize, throws) ==
    /\ up
    /\ IF ~hasSize
       THEN /\ lastOp' = Result("resize", id, FALSE, 400)
            /\ pty' = pty
       ELSE /\ pty' = resizedPty(instances, pty, id, throws)
            /\ lastOp' = IF resizeSessionResult(instances, id, throws)
                         THEN Result("resize", id, TRUE, 200)
                         ELSE Result("resize", id, FALSE, 404)
    /\ UNCHANGED <<renderer, instances, nextId, now, timers, diskVars, wsVars, pendingExit,
                   notified, emitted, up>>

\* POST /api/cleanup with body {days}
PostCleanup(days) ==
    /\ up
    /\ LET victims == cleanupVictims(meta, days) IN
       /\ meta' = Without(meta, victims)
       /\ logs' = Without(logs, victims)
       /\ lastOp' = Result("cleanup", 0, TRUE, Cardinality(victims))
    /\ UNCHANGED <<renderer, registryVars, now, wsVars, pendingExit, notified, emitted, up>>

----------------------------------------------------------------------------
\* Process callbacks (ptyManager.ts:93-108) with their listeners (index.ts:135-168)

pushOutputNoShift(buf, data) == Append(buf, data)

\* onData: push, and shift when the buffer is over capacity.
pushOutput(buf, data) ==
    IF Len(buf) + 1 > BufferCap THEN Tail(Append(buf, data)) ELSE Append(buf, data)

OnData(id, data) ==
    /\ up
    /\ id \in DOMAIN pty /\ pty[id].alive
    /\ TotalEmitted < MaxChunks
    /\ instances' = IF id \in Resident
                    THEN [instances EXCEPT ![id].outputBuffer = pushOutput(@, data)]
                    ELSE instances
    /\ ws' = broadcastToSession(ws, id, OutputMsg(data))
    /\ logs' = appendSessionLog(logs, id, data)
    /\ emitted' = MapSet(emitted, id, Append(Emitted(id), data))
    /\ UNCHANGED <<renderer, pty, nextId, now, timers, meta, sessionConnections, pendingExit,
                   notified, lastOp, up>>

\* onExit: the session record after the callback (lines 104-106).
exitedSession(s, code) ==
    [s EXCEPT !.status = IF code = 0 THEN "completed" ELSE "failed",
              !.completedAt = now,
              !.exitCode = code]

exitBroadcastEager(w, id, code, suspended) == broadcastToSession(w, id, ExitMsg(code))

\* The exit broadcast of the exit listener (index.ts:162-167), which the listener
\* reaches at once unless it is suspended at the await.
exitBroadcast(w, id, code, suspended) ==
    IF suspended THEN w ELSE broadcastToSession(w, id, ExitMsg(code))

OnExitUnchecked(id, code, enabled) ==
    /\ up
    /\ id \in DOMAIN pty /\ pty[id].alive
    /\ pty' = [pty EXCEPT ![id].alive = FALSE]
    /\ instances' = IF id \in Resident
                    THEN [instances EXCEPT ![id].session = exitedSession(@, code)]
                    ELSE instances
    /\ meta' = saveSessionMeta(meta, id, exitedSession(NewSession(id), code))
    /\ notified' = MapSet(notified, id, Notified(id) + 1)
    /\ pendingExit' = IF enabled
                      THEN pendingExit \cup {[id |-> id, exitCode |-> code]}
                      ELSE pendingExit
    /\ ws' = exitBroadcast(ws, id, code, enabled)
    /\ UNCHANGED <<renderer, nextId, now, timers, logs, sessionConnections, emitted,
                   lastOp, up>>

\* enabled: config.enabled && config.webhookUrl when notifyTaskCompleted runs; when
\* not, the awaited promise is already settled and the handler goes on before any
\* other event.
OnExit(id, code, enabled) ==
    /\ up
    /\ id \in DOMAIN pty /\ pty[id].alive
    /\ pty' = [pty EXCEPT ![id].alive = FALSE]
    /\ IF id \in Resident
       THEN /\ instances' = [instances EXCEPT ![id].session = exitedSession(@, code)]
            /\ meta' = saveSessionMeta(meta, id, instances'[id].session)
            /\ notified' = MapSet(notified, id, Notified(id) + 1)
            /\ pendingExit' = IF enabled
                              THEN pendingExit \cup {[id |-> id, exitCode |-> code]}
                              ELSE pendingExit
            /\ ws' = exitBroadcast(ws, id, code, enabled)
       ELSE /\ ws' = exitBroadcast(ws, id, code, FALSE)
            /\ UNCHANGED <<instances, meta, notified, pendingExit>>
    /\ UNCHANGED <<renderer, nextId, now, timers, logs, sessionConnections, emitted, lastOp, up>>

ExitContinuationRetry(p) ==
    /\ up
    /\ p \in pendingExit
    /\ pendingExit' = pendingExit \ {p}
    /\ notified' = MapSet(notified, p.id, Notified(p.id) + 1)
    /\ ws' = broadcastToSession(ws, p.id, ExitMsg(p.exitCode))
    /\ UNCHANGED <<renderer, registryVars, now, diskVars, sessionConnections, emitted, lastOp, up>>

ExitContinuationSilent(p) ==
    /\ up
    /\ p \in pendingExit
    /\ pendingExit' = pendingExit \ {p}
    /\ UNCHANGED <<renderer, registryVars, now, diskVars, wsVars, notified, emitted, lastOp, up>>

\* The exit handler resumes after `await notifyTaskCompleted` (index.ts:162-167).
ExitContinuation(p) ==
    /\ up
    /\ p \in pendingExit
    /\ pendingExit' = pendingExit \ {p}
    /\ ws' = broadcastToSession(ws, p.id, ExitMsg(p.exitCode))
    /\ UNCHANGED <<renderer, registryVars, now, diskVars, sessionConnections, notified,
                   emitted, lastOp, up>>

\* The characters of an initialInput, and the initialInput of a request: not given
\* (undefined), or a string, the empty one included.
Alphabet == {"a", "'", "\\", " "}
NotGiven == [given |-> FALSE, text |-> <<>>]
InitialInputs ==
    {NotGiven} \cup
    {[given |-> TRUE, text |-> t] : t \in UNION {[1..k -> Alphabet] : k \in 0..MaxLen}}
\* request.command: missing or empty, or a command.
Commands == {<<>>, <<"c">>}

escapeQuotesNone(text) == text

RECURSIVE escapeQuotes(_)
\* initialInput.replace(/'/g, "'\\''") (line 119)
escapeQuotes(text) ==
    IF text = <<>> THEN <<>>
    ELSE (IF Head(text) = "'" THEN <<"'", "\\", "'", "'">> ELSE <<Head(text)>>)
         \o escapeQuotes(Tail(text))

\* if (request.initialInput): neither undefined nor the empty string.
Truthy(initialInput) == initialInput.given /\ initialInput.text # <<>>

\* fullCommand (lines 116-121)
fullCommand(command, initialInput) ==
    IF Truthy(initialInput)
    THEN command \o <<" ", "'">> \o escapeQuotes(initialInput.text) \o <<"'">>
    ELSE command

\* The delayed command write of createSession (lines 113-125): when the request has
\* a command, fullCommand + '\r' is written to the process, whatever the status of
\* the session is by then. The request is fixed at creation and is not read before
\* the timer fires, so it is an input here. A process that has exited takes nothing.
TimerFire(id, command, initialInput) ==
    /\ up
    /\ id \in timers
    /\ timers' = timers \ {id}
    /\ pty' = IF command # <<>> /\ pty[id].alive
              THEN [pty EXCEPT ![id].writes = @ + 1,
                               ![id].injected = fullCommand(command, initialInput)
                                                \o <<"\r">>]
              ELSE pty
    /\ UNCHANGED <<renderer, instances, nextId, now, diskVars, wsVars, pendingExit, notified,
                   emitted, lastOp, up>>

\* Date.now() advances.
Tick ==
    /\ up
    /\ now < MaxTime
    /\ now' = now + 1
    /\ UNCHANGED <<renderer, registryVars, diskVars, wsVars, pendingExit, notified, emitted,
                   lastOp, up>>

\* SIGINT / SIGTERM: ptyManager.shutdown(), then process.exit(0).
Sigint ==
    /\ up
    /\ pty' = shutdownPty(instances, pty, Resident)
    /\ instances' = EmptyMap
    /\ up' = FALSE
    /\ lastOp' = Result("shutdown", 0, TRUE, 0)
    /\ UNCHANGED <<renderer, nextId, now, timers, diskVars, wsVars, pendingExit, notified,
                   emitted>>

----------------------------------------------------------------------------
\* Viewer channels (index.ts:61-119)

\* wss.on('connection') with ?sessionId=id.
WsConnection(v, id) ==
    /\ up
    /\ ws[v].readyState = "NEW"
    /\ sessionConnections' = MapSet(sessionConnections, id, Connections(id) \cup {v})
    /\ LET output == IF getSessionOutput(id) # <<>> THEN getSessionOutput(id)
                     ELSE readSessionLog(id)
       IN ws' = [ws EXCEPT ![v] =
                    [session |-> id, readyState |-> "OPEN",
                     inbox |-> IF output # <<>> THEN <<OutputMsg(output)>> ELSE <<>>,
                     attachAt |-> Len(Emitted(id)),
                     attachResident |-> id \in Resident]]
    /\ UNCHANGED <<renderer, registryVars, now, diskVars, pendingExit, notified, emitted,
                   lastOp, up>>

\* The closing handshake starts: the socket is no longer OPEN.
WsClosing(v) ==
    /\ up
    /\ ws[v].readyState = "OPEN"
    /\ ws' = [ws EXCEPT ![v].readyState = "CLOSING"]
    /\ UNCHANGED <<renderer, registryVars, now, diskVars, sessionConnections, pendingExit,
                   notified, emitted, lastOp, up>>

WsCloseKills(v) ==
    /\ up
    /\ ws[v].readyState \in {"OPEN", "CLOSING"}
    /\ ws' = [ws EXCEPT ![v] = [NewSocket EXCEPT !.readyState = "CLOSED"]]
    /\ sessionConnections' = MapDelete(sessionConnections, ws[v].session)
    /\ instances' = killedInstances(instances, ws[v].session)
    /\ pty' = killedPty(instances, pty, ws[v].session)
    /\ UNCHANGED <<renderer, nextId, now, timers, diskVars, pendingExit, notified,
                   emitted, lastOp, up>>

\* ws.on('close'): the connection leaves the map and the socket is dropped.
WsClose(v) ==
    /\ up
    /\ ws[v].readyState \in {"OPEN", "CLOSING"}
    /\ ws' = [ws EXCEPT ![v] = [NewSocket EXCEPT !.readyState = "CLOSED"]]
    /\ LET id == ws[v].session
           rest == Connections(id) \ {v}
       IN sessionConnections' =
              IF rest = {} THEN MapDelete(sessionConnections, id)
              ELSE MapSet(sessionConnections, id, rest)
    /\ UNCHANGED <<renderer, registryVars, now, diskVars, pendingExit, notified, emitted,
                   lastOp, up>>

\* ws.on('message') (index.ts:94-106): an input or a resize message of a viewer;
\* the result of writeToSession / resizeSession is dropped.
WsMessage(v, type, throws) ==
    /\ up
    /\ ws[v].readyState \in {"OPEN", "CLOSING"}
    /\ pty' = IF type = "input"
              THEN writtenPty(instances, pty, ws[v].session, throws)
              ELSE resizedPty(instances, pty, ws[v].session, throws)
    /\ UNCHANGED <<renderer, instances, nextId, now, timers, diskVars, wsVars, pendingExit,
                   notified, emitted, lastOp, up>>

----------------------------------------------------------------------------
\* Spec: the life cycle of sessions, their metadata and their notifications.

Ids == 1..(nextId + 1)

Create ==
    \E valid, spawnOk \in BOOLEAN :
        /\ nextId < MaxSessions \/ ~canCreateSession
        /\ PostSessions(valid, spawnOk)
Kill == \E id \in Ids : PostKill(id)
Delete == \E id \in Ids : DeleteSession(id)
Exit == \E id \in DOMAIN pty, code \in ExitCodes, enabled \in BOOLEAN : OnExit(id, code, enabled)
Resume == \E p \in pendingExit : ExitContinuation(p)
Timer ==
    \E id \in timers, command \in Commands, initialInput \in InitialInputs :
        TimerFire(id, command, initialInput)

Next ==
    \/ Create
    \/ Kill
    \/ Delete
    \/ Exit
    \/ Resume
    \/ Tick
    \/ Sigint

Spec == Init /\ [][Next]_vars

----------------------------------------------------------------------------
\* SpecCapacity: enough session ids to reach the admission ceiling. At most
\* MaxEnded sessions leave `running` in one behaviour; the clock stands still.

Ended == {i \in 1..nextId : ~IsRunning(instances, i)}
MayEnd(id) == IsRunning(instances, id) => Cardinality(Ended) < MaxEnded

CapCreate ==
    \E valid, spawnOk \in BOOLEAN :
        /\ nextId < MaxIds \/ ~canCreateSession
        /\ spawnOk \/ Cardinality(Ended) < MaxEnded
        /\ PostSessions(valid, spawnOk)
CapKill == \E id \in Ids : MayEnd(id) /\ PostKill(id)
CapDelete == \E id \in Ids : MayEnd(id) /\ DeleteSession(id)
CapExit ==
    \E id \in DOMAIN pty, code \in ExitCodes, enabled \in BOOLEAN :
        MayEnd(id) /\ OnExit(id, code, enabled)

NextCapacity ==
    \/ CapCreate
    \/ CapKill
    \/ CapDelete
    \/ CapExit
    \/ Resume
    \/ Sigint

SpecCapacity == Init /\ [][NextCapacity]_vars

----------------------------------------------------------------------------
\* Properties of the admission ceiling (SpecCapacity)

C4_FailedCreateFrame ==
    [][\A valid, spawnOk \in BOOLEAN :
          (PostSessions(valid, spawnOk) /\ ~lastOp'.ok) =>
             /\ instances' = instances
             /\ getActiveSessionCount' = getActiveSessionCount
             /\ pty' = pty
             /\ meta' = meta
             /\ logs' = logs
             /\ timers' = timers
             /\ lastOp'.code = 429 => nextId' = nextId
      ]_vars

\* A spawn failure consumed an id without leaving a session, and later a create
\* request was rejected at the ceiling.
C4_Witness ==
    /\ lastOp.op = "create" /\ lastOp.code = 429
    /\ \E i \in 1..nextId : i \notin DOMAIN pty /\ i \notin Resident /\ i \notin DOMAIN meta
    /\ getActiveSessionCount = MAX_PARALLEL_SESSIONS

----------------------------------------------------------------------------
\* Properties of the session life cycle (Spec)

Terminal(s) == s.status \in {"completed", "failed"}

\* C2: once the status of a session is completed or failed, no later step changes
\* its status, completedAt or exitCode.
C2_TerminalImmutable ==
    [][\A i \in Resident \cap DOMAIN instances' :
          Terminal(instances[i].session) =>
              instances'[i].session = instances[i].session
      ]_vars

C6_SetTogether ==
    \A i \in Resident :
        LET s == instances[i].session IN
        /\ (s.completedAt = Undefined) <=> (s.exitCode = Undefined)
        /\ (s.status = "running") <=> (s.completedAt = Undefined)

\* C8: notifyTaskCompleted is called for a session exactly in the step in which the
\* process of the resident session exits, and never more than once per session.
C8_NotifyOnce ==
    [][\A id \in 1..nextId' :
          /\ Notified(id)' <= 1
          /\ Notified(id)' - Notified(id) =
                IF id \in Resident /\ id \in DOMAIN pty /\ pty[id].alive /\ ~pty'[id].alive
                THEN 1 ELSE 0
      ]_vars

\* A session was killed, its process exited afterwards, one notification was attempted
\* and the suspended exit handler has resumed.
C8_Witness ==
    \E id \in DOMAIN pty :
        /\ pty[id].signals = 1 /\ ~pty[id].alive
        /\ Notified(id) = 1
        /\ pendingExit = {}
        /\ lastOp.op = "kill" /\ lastOp.id = id

\* C9: whenever a resident session with a metadata file is terminal, the file holds
\* the same status.
C9_MetaMatchesTerminal ==
    \A i \in Resident \cap DOMAIN meta :
        Terminal(instances[i].session) => meta[i].status = instances[i].session.status

----------------------------------------------------------------------------
\* SpecFanout: the first session, with viewers attaching and detaching while its
\* process emits output.

FanIds == 1..nextId

FanCreate == \E spawnOk \in BOOLEAN : nextId = 0 /\ PostSessions(TRUE, spawnOk)
FanKill == \E id \in FanIds : PostKill(id)
FanDelete == \E id \in FanIds : DeleteSession(id)
Data == \E id \in DOMAIN pty : OnData(id, Chunk(TotalEmitted + 1))
Connect == \E v \in Viewers, id \in FanIds : WsConnection(v, id)
Closing == \E v \in Viewers : WsClosing(v)
Close == \E v \in Viewers : WsClose(v)

NextFanout ==
    \/ FanCreate
    \/ FanKill
    \/ FanDelete
    \/ Data
    \/ Exit
    \/ Resume
    \/ Connect
    \/ Closing
    \/ Close

SpecFanout == Init /\ [][NextFanout]_vars

\* The output messages a viewer has received, and their data put together.
Outputs(v) == SelectSeq(ws[v].inbox, LAMBDA m : m.type = "output")
RECURSIVE JoinData(_)
JoinData(msgs) ==
    IF msgs = <<>> THEN <<>> ELSE Head(msgs).data \o JoinData(Tail(msgs))

Attached(v) == ws[v].readyState = "OPEN" /\ ws[v].attachResident

\* C3 as claimed: what an attached viewer has received is the concatenation of all
\* the chunks the process has emitted.
C3_StreamComplete ==
    \A v \in Viewers :
        Attached(v) => JoinData(Outputs(v)) = Join(Emitted(ws[v].session))

Max(a, b) == IF a > b THEN a ELSE b

\* The chunks the buffer held when the viewer attached: the last BufferCap of the
\* attachAt chunks emitted until then.
CatchUp(v) ==
    SubSeq(Emitted(ws[v].session), Max(1, ws[v].attachAt - BufferCap + 1), ws[v].attachAt)

\* C3 as amended: a viewer that attached to a resident session has received one
\* catch-up message with the chunks the buffer held at attach time (none when the
\* buffer was empty), then one message per chunk emitted since, in emission order.
C3_StreamFromBuffer ==
    \A v \in Viewers :
        Attached(v) =>
            LET em == Emitted(ws[v].session)
                live == SubSeq(em, ws[v].attachAt + 1, Len(em))
            IN Outputs(v) =
                  (IF ws[v].attachAt > 0 THEN <<OutputMsg(Join(CatchUp(v)))>> ELSE <<>>)
                  \o [k \in 1..Len(live) |-> OutputMsg(live[k])]

\* Two viewers attached at different times, the later one after an eviction, have
\* both received live chunks.
C3_Witness ==
    /\ Attached(1) /\ Attached(2) /\ ws[1].session = ws[2].session
    /\ ws[1].attachAt = 0 /\ ws[2].attachAt > BufferCap
    /\ Len(Emitted(ws[1].session)) > ws[2].attachAt

\* C7: a viewer receives at most one exit message, and nothing after it.
C7_ExitLast ==
    \A v \in Viewers :
        \A k \in 1..Len(ws[v].inbox) :
            ws[v].inbox[k].type = "exit" => k = Len(ws[v].inbox)

\* A viewer received output after a kill and then the exit message, delivered by the
\* resumed exit handler.
C7_Witness ==
    \E v \in Viewers :
        LET box == ws[v].inbox IN
        /\ Len(box) >= 2
        /\ box[Len(box)].type = "exit"
        /\ box[Len(box) - 1].type = "output"
        /\ pty[ws[v].session].signals = 1
        /\ pendingExit = {}
        /\ Notified(ws[v].session) = 1

----------------------------------------------------------------------------
\* SpecCleanup: sessions age by days while some of them keep running, and the
\* retention job runs.

DaysToKeep == 1..MaxDays

TickDay ==
    /\ up
    /\ now < MaxDays * DAY_MS
    /\ now' = now + DAY_MS
    /\ UNCHANGED <<renderer, registryVars, diskVars, wsVars, pendingExit, notified, emitted,
                   lastOp, up>>

FirstData == \E id \in DOMAIN pty : Emitted(id) = <<>> /\ OnData(id, Chunk(TotalEmitted + 1))
Cleanup == \E days \in DaysToKeep : PostCleanup(days)

NextCleanup ==
    \/ Create
    \/ Kill
    \/ FirstData
    \/ Exit
    \/ Resume
    \/ TickDay
    \/ Cleanup

SpecCleanup == Init /\ [][NextCleanup]_vars

\* C10: the retention job deletes the metadata and the log of exactly the persisted
\* sessions that are older than the cutoff and not running, returns their number, and
\* leaves every other persisted session, every running one included, as it was.
C10_CleanupSparesRunning ==
    [][\A days \in DaysToKeep :
          PostCleanup(days) =>
             LET old == {id \in DOMAIN meta : meta[id].createdAt < now - days * DAY_MS}
                 gone == {id \in old : ~IsRunning(instances, id)}
             IN /\ DOMAIN meta' = (DOMAIN meta) \ gone
                /\ DOMAIN logs' = (DOMAIN logs) \ gone
                /\ \A id \in DOMAIN meta' : meta'[id] = meta[id]
                /\ \A id \in DOMAIN logs' : logs'[id] = logs[id]
                /\ lastOp'.code = Cardinality(gone)
      ]_vars

----------------------------------------------------------------------------
\* Properties of deletion, exit delivery and the output buffer (SpecFanout)

\* C11: from the state in which DELETE of a session returns, the storage holds
\* neither metadata nor a log for its id, and no later step (a late data or exit
\* callback of its process included) brings either back.
C11_DeletedStaysDeleted ==
    [][\A id \in FanIds :
          (\/ DeleteSession(id)
           \/ id \notin Resident /\ id \notin DOMAIN meta /\ id \notin DOMAIN logs)
          => id \notin DOMAIN meta' /\ id \notin DOMAIN logs'
      ]_vars

\* C14: in the step in which a process exits, every open connection of its session
\* receives the exit message, whether or not a webhook attempt is started; the end
\* of the attempt changes no session.
C14_ExitNotDelayed ==
    [][/\ \A id \in DOMAIN pty, code \in ExitCodes, enabled \in BOOLEAN :
            OnExit(id, code, enabled) =>
               \A v \in Connections(id) :
                   ws[v].readyState = "OPEN" =>
                       ws'[v].inbox = Append(ws[v].inbox, ExitMsg(code))
       /\ \A p \in pendingExit : ExitContinuation(p) => instances' = instances
      ]_vars

\* The most recent chunks of a process, as many as the buffer can hold.
Recent(id) ==
    LET n == Len(Emitted(id)) IN SubSeq(Emitted(id), Max(1, n - BufferCap + 1), n)

\* C16: the buffer of a resident session never holds more than BufferCap chunks and
\* is the most recent min(n, BufferCap) of the n chunks its process has emitted, in
\* emission order (so it changes only when a chunk is emitted, and loses only its
\* oldest chunk); getSessionOutput is the concatenation of the buffer, and the
\* empty string for an id that is not resident.
C16_BufferIsRecent ==
    /\ \A id \in Resident :
          /\ Len(instances[id].outputBuffer) <= BufferCap
          /\ instances[id].outputBuffer = Recent(id)
          /\ getSessionOutput(id) = Join(Recent(id))
    /\ \A id \in (1..(nextId + 1)) \ Resident : getSessionOutput(id) = <<>>

\* A resident session whose buffer is full and has lost two chunks.
C16_Witness ==
    \E id \in Resident :
        /\ Len(Emitted(id)) = BufferCap + 2
        /\ Len(instances[id].outputBuffer) = BufferCap
        /\ Head(instances[id].outputBuffer) = Emitted(id)[3]

\* C17: neither the exit of the process nor killSession removes a session from the
\* registry: after either the session is resident and terminal, and its buffered
\* output is what it was. A session leaves the registry only by a removal request
\* or by shutdown.
C17_ExitKeepsSession ==
    [][\A id \in Resident :
          /\ (\/ PostKill(id)
              \/ \E code \in ExitCodes, enabled \in BOOLEAN : OnExit(id, code, enabled))
             => /\ id \in Resident'
                /\ Terminal(instances'[id].session)
                /\ instances'[id].outputBuffer = instances[id].outputBuffer
                /\ getSessionOutput(id)' = getSessionOutput(id)
          /\ id \notin Resident' => (DeleteSession(id) \/ Sigint)
      ]_vars

\* A session that was killed and whose process then exited is resident with its
\* output.
C17_Witness ==
    \E id \in Resident :
        /\ pty[id].signals = 1 /\ ~pty[id].alive
        /\ instances[id].session.exitCode # Undefined
        /\ getSessionOutput(id) # <<>>

----------------------------------------------------------------------------
\* SpecInput: input and resize requests, over HTTP and from viewers, to the first
\* session while it runs, is killed, exits and is deleted.

MessageTypes == {"input", "resize"}
Accepts(id) == id \in DOMAIN pty => pty[id].writes < MaxWrites /\ pty[id].resizes < MaxWrites

Input == \E id \in Ids, hasData, throws \in BOOLEAN : Accepts(id) /\ PostInput(id, hasData, throws)
Resize == \E id \in Ids, hasSize, throws \in BOOLEAN : Accepts(id) /\ PostResize(id, hasSize, throws)
Message ==
    \E v \in Viewers, type \in MessageTypes, throws \in BOOLEAN :
        Accepts(ws[v].session) /\ WsMessage(v, type, throws)

NextInput ==
    \/ FanCreate
    \/ FanKill
    \/ FanDelete
    \/ Exit
    \/ Resume
    \/ Connect
    \/ Closing
    \/ Close
    \/ Input
    \/ Resize
    \/ Message

SpecInput == Init /\ [][NextInput]_vars

\* What a write (or resize) request for session id must do to the processes.
Forwarded(id, field, throws) ==
    IF IsRunning(instances, id) /\ ~throws
    THEN /\ \A i \in DOMAIN pty : i # id => pty'[i] = pty[i]
         /\ pty'[id][field] = pty[id][field] + 1
         /\ \A f \in (DOMAIN pty[id]) \ {field} : pty'[id][f] = pty[id][f]
    ELSE pty' = pty

\* C12: writeToSession and resizeSession forward to the process only when the id is
\* resident and its status is running, and then return true; for an unknown id and
\* for a completed or failed session (a killed one whose process has not exited
\* included) they return false and nothing is written or resized; when the process
\* handle throws they return false. No session record changes in any case.
C12_ForwardOnlyRunning ==
    [][/\ \A id \in Ids, throws \in BOOLEAN :
            /\ PostInput(id, TRUE, throws) =>
                  /\ lastOp'.ok <=> (IsRunning(instances, id) /\ ~throws)
                  /\ Forwarded(id, "writes", throws)
                  /\ instances' = instances
            /\ PostResize(id, TRUE, throws) =>
                  /\ lastOp'.ok <=> (IsRunning(instances, id) /\ ~throws)
                  /\ Forwarded(id, "resizes", throws)
                  /\ instances' = instances
       /\ \A v \in Viewers, throws \in BOOLEAN :
            /\ WsMessage(v, "input", throws) =>
                  Forwarded(ws[v].session, "writes", throws) /\ instances' = instances
            /\ WsMessage(v, "resize", throws) =>
                  Forwarded(ws[v].session, "resizes", throws) /\ instances' = instances
      ]_vars

\* An input request to a killed session whose process is still alive was refused,
\* after an earlier input had been forwarded and no resize had been.
C12_Witness ==
    /\ lastOp.op = "input" /\ lastOp.code = 404
    /\ lastOp.id \in Resident
    /\ instances[lastOp.id].session.status = "failed"
    /\ pty[lastOp.id].alive /\ pty[lastOp.id].signals = 1
    /\ pty[lastOp.id].writes = 1
    /\ pty[lastOp.id].resizes = 0

----------------------------------------------------------------------------
\* Desktop application: the same PtyManager in the Electron main process
\* (terminal IPC handlers), and the terminal view of the renderer (XTerminal.tsx).
\* Main and renderer exchange messages: invoke requests (toMain), their replies
\* (reply) and the events of webContents.send (events).

IpcMsg(type, id, data, code) ==
    [type |-> type, sessionId |-> id, data |-> data, exitCode |-> code]

\* broadcastToRenderers: webContents.send to the window.
broadcastToRenderers(r, msg) == [r EXCEPT !.events = Append(@, msg)]

\* ipcMain.handle('terminal:createSession'): the session, or null, as createSession
\* returned it.
IpcCreateSession(spawnOk) ==
    /\ up
    /\ LET r == createSession(spawnOk) IN
       /\ instances' = r.instances
       /\ pty' = r.pty
       /\ nextId' = r.nextId
       /\ timers' = r.timers
       /\ lastOp' = Result("ipcCreate", r.id, r.id # 0, 0)
    /\ UNCHANGED <<now, serviceVars, emitted, up, renderer>>

\* ipcMain.handle('terminal:kill')
IpcKill(id) ==
    /\ up
    /\ instances' = killedInstances(instances, id)
    /\ pty' = killedPty(instances, pty, id)
    /\ lastOp' = Result("ipcKill", id, killSessionResult(instances, id), 0)
    /\ UNCHANGED <<nextId, now, timers, serviceVars, emitted, up, renderer>>

\* ipcMain.handle('terminal:remove'): removeSession and its return value.
IpcRemove(id) ==
    /\ up
    /\ instances' = removedInstances(instances, id)
    /\ pty' = killedPty(instances, pty, id)
    /\ lastOp' = Result("ipcRemove", id, id \in Resident, 0)
    /\ UNCHANGED <<nextId, now, timers, serviceVars, emitted, up, renderer>>

\* shutdownTerminal(), called on before-quit and again on quit.
Shutdown ==
    /\ up
    /\ pty' = shutdownPty(instances, pty, Resident)
    /\ instances' = EmptyMap
    /\ lastOp' = Result("shutdown", 0, TRUE, 0)
    /\ UNCHANGED <<nextId, now, timers, serviceVars, emitted, up, renderer>>

\* onData of the desktop PtyManager: buffer, then terminal:output to the window.
DesktopOnData(id, data) ==
    /\ up
    /\ id \in DOMAIN pty /\ pty[id].alive
    /\ TotalEmitted < MaxChunks
    /\ instances' = IF id \in Resident
                    THEN [instances EXCEPT ![id].outputBuffer = pushOutput(@, data)]
                    ELSE instances
    /\ renderer' = broadcastToRenderers(renderer, IpcMsg("output", id, data, Undefined))
    /\ emitted' = MapSet(emitted, id, Append(Emitted(id), data))
    /\ UNCHANGED <<pty, nextId, now, timers, serviceVars, lastOp, up>>

\* onExit of the desktop PtyManager: session record, then terminal:exit.
DesktopOnExit(id, code) ==
    /\ up
    /\ id \in DOMAIN pty /\ pty[id].alive
    /\ pty' = [pty EXCEPT ![id].alive = FALSE]
    /\ instances' = IF id \in Resident
                    THEN [instances EXCEPT ![id].session = exitedSession(@, code)]
                    ELSE instances
    /\ renderer' = broadcastToRenderers(renderer, IpcMsg("exit", id, <<>>, code))
    /\ UNCHANGED <<nextId, now, timers, serviceVars, emitted, lastOp, up>>

\* The IPC effect of XTerminal runs for session id: the listeners are set, then the
\* size is sent and the history is requested (lines 253-273).
RendererAttach(id) ==
    /\ up
    /\ renderer.mounted = "no"
    /\ renderer' = [renderer EXCEPT
                       !.sessionId = id,
                       !.mounted = "yes",
                       !.toMain = @ \o <<IpcMsg("resize", id, <<>>, Undefined),
                                         IpcMsg("getOutput", id, <<>>, Undefined)>>]
    /\ UNCHANGED <<registryVars, now, serviceVars, emitted, lastOp, up>>

\* The main process serves the next invoke request of the renderer.
IpcMainHandle(throws) ==
    /\ up
    /\ renderer.toMain # <<>>
    /\ LET m == Head(renderer.toMain) IN
       IF m.type = "resize"
       THEN /\ pty' = resizedPty(instances, pty, m.sessionId, throws)
            /\ renderer' = [renderer EXCEPT !.toMain = Tail(@)]
       ELSE /\ pty' = pty
            /\ renderer' = [renderer EXCEPT
                               !.toMain = Tail(@),
                               !.reply = Append(@, IpcMsg("history", m.sessionId,
                                                   getSessionOutput(m.sessionId),
                                                   Undefined))]
    /\ UNCHANGED <<instances, nextId, now, timers, serviceVars, emitted, lastOp, up>>

\* A terminal:output or terminal:exit event reaches the renderer: its listener
\* writes it to the terminal unless it is aborted or the event is of another session.
RendererOnEvent ==
    /\ up
    /\ renderer.events # <<>>
    /\ LET m == Head(renderer.events) IN
       renderer' = [renderer EXCEPT
                       !.events = Tail(@),
                       !.screen = IF renderer.mounted = "yes" /\ m.sessionId = renderer.sessionId
                                  THEN Append(@, m) ELSE @]
    /\ UNCHANGED <<registryVars, now, serviceVars, emitted, lastOp, up>>

\* The reply of getOutput reaches loadHistory (lines 243-246).
RendererOnReply ==
    /\ up
    /\ renderer.reply # <<>>
    /\ LET m == Head(renderer.reply) IN
       renderer' = [renderer EXCEPT
                       !.reply = Tail(@),
                       !.screen = IF renderer.mounted = "yes" /\ m.data # <<>>
                                  THEN Append(@, m) ELSE @]
    /\ UNCHANGED <<registryVars, now, serviceVars, emitted, lastOp, up>>

\* The cleanup of the effect (lines 282-288).
RendererDetach ==
    /\ up
    /\ renderer.mounted = "yes"
    /\ renderer' = [renderer EXCEPT !.sessionId = 0, !.mounted = "gone"]
    /\ UNCHANGED <<registryVars, now, serviceVars, emitted, lastOp, up>>

----------------------------------------------------------------------------
\* SpecDesktop: the terminal view attaches to the first session of the desktop
\* application while its process emits output.

DeskCreate == \E spawnOk \in BOOLEAN : nextId = 0 /\ IpcCreateSession(spawnOk)
DeskKill == \E id \in FanIds : IpcKill(id)
DeskRemove == \E id \in FanIds : IpcRemove(id)
DeskData == \E id \in DOMAIN pty : DesktopOnData(id, Chunk(TotalEmitted + 1))
DeskExit == \E id \in DOMAIN pty, code \in ExitCodes : DesktopOnExit(id, code)
Attach == \E id \in FanIds : RendererAttach(id)
MainHandle == \E throws \in BOOLEAN : IpcMainHandle(throws)

NextDesktop ==
    \/ DeskCreate
    \/ DeskKill
    \/ DeskRemove
    \/ DeskData
    \/ DeskExit
    \/ Attach
    \/ MainHandle
    \/ RendererOnEvent
    \/ RendererOnReply
    \/ RendererDetach

SpecDesktop == Init /\ [][NextDesktop]_vars

\* The output the terminal of the view has been given (exit banners left out).
ScreenText ==
    JoinData(SelectSeq(renderer.screen, LAMBDA m : m.type # "exit"))

\* No IPC message of the view is in flight.
Settled == renderer.toMain = <<>> /\ renderer.events = <<>> /\ renderer.reply = <<>>

\* C15: in the desktop view attached to a resident session, the history is written
\* to the terminal before any live chunk, and once the messages in flight have
\* arrived the terminal has been given every chunk the process emitted exactly
\* once, in emission order (no chunk both in the history and as a live chunk).
C15_DesktopStream ==
    (renderer.mounted = "yes" /\ renderer.sessionId \in Resident) =>
        /\ \A k \in 1..Len(renderer.screen) :
              renderer.screen[k].type = "history" => k = 1
        /\ Settled => ScreenText = Join(Emitted(renderer.sessionId))

----------------------------------------------------------------------------
\* The value a caller of create gets back (SpecCapacity)

\* ipcMain.handle('terminal:createSession') returns what createSession returned:
\* the session (its id here) or null (0).
ipcCreateSessionReturn(spawnOk) == createSession(spawnOk).id

\* The status of the response of POST /api/sessions to a valid body.
postSessionsStatus(spawnOk) ==
    IF ~canCreateSession THEN 429
    ELSE IF createSession(spawnOk).id = 0 THEN 500 ELSE 200

\* C13: what a create call returns when it is rejected at the ceiling differs from
\* what it returns when the spawn fails, for createSession itself, for the desktop
\* IPC handler and for the HTTP route. Compared over a step that reaches the
\* ceiling: a failed spawn before it, a rejection after it.
C13_RejectionsDiffer ==
    [][(canCreateSession /\ ~canCreateSession') =>
          /\ createSession(FALSE).id # (createSession(TRUE).id)'
          /\ ipcCreateSessionReturn(FALSE) # ipcCreateSessionReturn(TRUE)'
          /\ postSessionsStatus(FALSE) # postSessionsStatus(TRUE)'
      ]_vars

----------------------------------------------------------------------------
\* SpecQuit: sessions of the desktop application are created, killed and removed,
\* their processes exit, and the application shuts the terminals down when it quits.

QuitCreate == \E spawnOk \in BOOLEAN : nextId < MaxSessions /\ IpcCreateSession(spawnOk)
QuitKill == \E id \in Ids : IpcKill(id)
QuitRemove == \E id \in Ids : IpcRemove(id)

NextQuit ==
    \/ QuitCreate
    \/ QuitKill
    \/ QuitRemove
    \/ DeskExit
    \/ Shutdown

SpecQuit == Init /\ [][NextQuit]_vars

\* 1 when the session is resident and running, else 0.
RunningNow(id) == IF IsRunning(instances, id) THEN 1 ELSE 0

\* C19: removeSession of an id that is not resident returns false and changes
\* nothing. Of a resident id it returns true, signals the process exactly when the
\* session was running, and afterwards the id is not resident (not found, not
\* listed, not counted as running) while every other session is as it was. The
\* files of the session manager are not touched.
C19_RemoveSession ==
    [][\A id \in Ids :
          IpcRemove(id) =>
             IF id \in Resident
             THEN /\ lastOp'.ok
                  /\ Resident' = Resident \ {id}
                  /\ \A i \in Resident' : instances'[i] = instances[i]
                  /\ getActiveSessionCount' = getActiveSessionCount - RunningNow(id)
                  /\ pty'[id].signals = pty[id].signals + RunningNow(id)
                  /\ \A i \in (DOMAIN pty) \ {id} : pty'[i] = pty[i]
                  /\ UNCHANGED diskVars
             ELSE /\ ~lastOp'.ok
                  /\ UNCHANGED <<registryVars, diskVars>>
      ]_vars

\* A running session was removed (one signal sent, its process still alive) while
\* another session, which had exited, stays resident.
C19_Witness ==
    /\ lastOp.op = "ipcRemove" /\ lastOp.ok
    /\ lastOp.id \notin Resident
    /\ pty[lastOp.id].signals = 1 /\ pty[lastOp.id].alive
    /\ \E i \in Resident : ~pty[i].alive /\ pty[i].signals = 0

\* C20: shutdown() empties the registry; every session that was running gets one
\* signal by it and every other session none; no process ever gets a second signal,
\* and shutdown() on an empty registry (the second call when the application quits)
\* changes nothing.
C20_Shutdown ==
    [][Shutdown =>
          /\ Resident' = {}
          /\ getActiveSessionCount' = 0
          /\ \A id \in DOMAIN pty :
                /\ pty'[id].signals = pty[id].signals + RunningNow(id)
                /\ pty'[id].signals <= 1
                /\ pty'[id].alive = pty[id].alive
          /\ DOMAIN pty' = DOMAIN pty
          /\ Resident = {} => UNCHANGED registryVars
      ]_vars

\* After a shutdown the registry is empty; one session that was running got its
\* signal, one whose process had exited got none.
C20_Witness ==
    /\ lastOp.op = "shutdown"
    /\ Resident = {}
    /\ \E a, b \in DOMAIN pty :
          /\ pty[a].signals = 1 /\ pty[a].alive
          /\ pty[b].signals = 0 /\ ~pty[b].alive

----------------------------------------------------------------------------
\* Failing file operations. Every function of the session manager runs its file
\* calls inside try/catch and only logs the error, so its caller goes on as after
\* a successful call; the file is left as the failed call left it.

caughtRethrown(resumed, aborted) == aborted

\* The value a handler ends with when a file operation it called failed: the one
\* it reaches by going on (resumed), not the one an escaping error would leave.
caught(resumed, aborted) == resumed

\* POST /api/sessions, valid body, spawn succeeds, writeFileSync of the metadata
\* fails.
PostSessionsSaveFails ==
    /\ up
    /\ canCreateSession
    /\ LET r == createSession(TRUE) IN
       /\ instances' = r.instances
       /\ pty' = r.pty
       /\ nextId' = r.nextId
       /\ timers' = r.timers
       /\ lastOp' = caught(Result("create", r.id, TRUE, 200),
                           Result("create", 0, FALSE, 500))
    /\ UNCHANGED <<now, diskVars, wsVars, pendingExit, notified, emitted, up, renderer>>

\* DELETE /api/sessions/:id when deleteSessionLog fails: at "log" before anything
\* is unlinked, at "meta" after the log has been unlinked.
DeleteSessionFails(id, at) ==
    /\ up
    /\ at = "meta" => id \in DOMAIN meta
    /\ instances' = removedInstances(instances, id)
    /\ pty' = killedPty(instances, pty, id)
    /\ logs' = IF at = "meta" THEN deleteSessionLog(logs, id) ELSE logs
    /\ meta' = meta
    /\ lastOp' = caught(Result("delete", id, TRUE, 200),
                        Result("delete", id, FALSE, 500))
    /\ UNCHANGED <<nextId, now, timers, wsVars, pendingExit, notified, emitted, up,
                   renderer>>

\* GET /api/sessions/:id. listed: getAllSavedSessions returned the metadata of the
\* id (it does not when reading the directory or the file fails).
getSessionStatus(id, listed) ==
    IF id \in Resident \/ (listed /\ id \in DOMAIN meta) THEN 200 ELSE 404

GetSession(id, listed) ==
    /\ up
    /\ lastOp' = Result("get", id, getSessionStatus(id, listed) = 200,
                        getSessionStatus(id, listed))
    /\ UNCHANGED <<registryVars, now, diskVars, wsVars, pendingExit, notified,
                   emitted, up, renderer>>

\* The 'output' listener when appendFileSync fails (the broadcast comes first).
OnDataAppendFails(id, data) ==
    /\ up
    /\ id \in DOMAIN pty /\ pty[id].alive
    /\ TotalEmitted < MaxChunks
    /\ instances' = IF id \in Resident
                    THEN [instances EXCEPT ![id].outputBuffer = pushOutput(@, data)]
                    ELSE instances
    /\ ws' = broadcastToSession(ws, id, OutputMsg(data))
    /\ emitted' = MapSet(emitted, id, Append(Emitted(id), data))
    /\ UNCHANGED <<pty, nextId, now, timers, diskVars, sessionConnections,
                   pendingExit, notified, lastOp, up, renderer>>

\* The 'exit' listener of a resident session when writeFileSync of the metadata
\* fails.
OnExitSaveFails(id, code, enabled) ==
    /\ up
    /\ id \in DOMAIN pty /\ pty[id].alive
    /\ id \in Resident
    /\ pty' = [pty EXCEPT ![id].alive = FALSE]
    /\ instances' = [instances EXCEPT ![id].session = exitedSession(@, code)]
    /\ notified' = caught(MapSet(notified, id, Notified(id) + 1), notified)
    /\ pendingExit' = caught(IF enabled
                             THEN pendingExit \cup {[id |-> id, exitCode |-> code]}
                             ELSE pendingExit,
                             pendingExit)
    /\ ws' = caught(exitBroadcast(ws, id, code, enabled), ws)
    /\ UNCHANGED <<nextId, now, timers, diskVars, sessionConnections, emitted,
                   lastOp, up, renderer>>

\* wss.on('connection') when the buffer is empty and readFileSync of the log fails:
\* readSessionLog returns '' and no history is sent.
WsConnectionReadFails(v, id) ==
    /\ up
    /\ ws[v].readyState = "NEW"
    /\ getSessionOutput(id) = <<>>
    /\ sessionConnections' = MapSet(sessionConnections, id, Connections(id) \cup {v})
    /\ ws' = [ws EXCEPT ![v] =
                 [session |-> id, readyState |-> "OPEN", inbox |-> <<>>,
                  attachAt |-> Len(Emitted(id)), attachResident |-> id \in Resident]]
    /\ UNCHANGED <<registryVars, now, diskVars, pendingExit, notified, emitted,
                   lastOp, up, renderer>>

----------------------------------------------------------------------------
\* SpecDisk: the first session of the service and one viewer, with file operations
\* that may fail.

DiskViewers == {1}
DeleteFaults == {"log", "meta"}

DiskCreateFails == nextId = 0 /\ PostSessionsSaveFails
DiskDeleteFails == \E id \in FanIds, at \in DeleteFaults : DeleteSessionFails(id, at)
DiskGet == \E id \in FanIds, listed \in BOOLEAN : GetSession(id, listed)
DiskDataFails == \E id \in DOMAIN pty : OnDataAppendFails(id, Chunk(TotalEmitted + 1))
DiskExitFails ==
    \E id \in DOMAIN pty, code \in ExitCodes, enabled \in BOOLEAN :
        OnExitSaveFails(id, code, enabled)
DiskConnect == \E v \in DiskViewers, id \in FanIds : WsConnection(v, id)
DiskConnectFails == \E v \in DiskViewers, id \in FanIds : WsConnectionReadFails(v, id)
DiskClose == \E v \in DiskViewers : WsClose(v)

NextDisk ==
    \/ FanCreate
    \/ DiskCreateFails
    \/ FanKill
    \/ FanDelete
    \/ DiskDeleteFails
    \/ DiskGet
    \/ Data
    \/ DiskDataFails
    \/ Exit
    \/ DiskExitFails
    \/ Resume
    \/ DiskConnect
    \/ DiskConnectFails
    \/ DiskClose

SpecDisk == Init /\ [][NextDisk]_vars

\* A step in which a metadata save, a log append or a delete fails ends as the same
\* step without the failure does, apart from the files: same response, same
\* registry, same messages to the viewers.
WriteFaultsSwallowed ==
    /\ PostSessionsSaveFails =>
          /\ lastOp' = Result("create", nextId + 1, TRUE, 200)
          /\ instances' = createSession(TRUE).instances
          /\ pty' = createSession(TRUE).pty
    /\ \A id \in FanIds :
          /\ \A at \in DeleteFaults :
                DeleteSessionFails(id, at) =>
                   /\ lastOp' = Result("delete", id, TRUE, 200)
                   /\ instances' = removedInstances(instances, id)
                   /\ pty' = killedPty(instances, pty, id)
          /\ OnDataAppendFails(id, Chunk(TotalEmitted + 1)) =>
                /\ id \in Resident =>
                      instances'[id].outputBuffer =
                         pushOutput(instances[id].outputBuffer, Chunk(TotalEmitted + 1))
                /\ ws' = broadcastToSession(ws, id, OutputMsg(Chunk(TotalEmitted + 1)))
          /\ \A code \in ExitCodes, enabled \in BOOLEAN :
                OnExitSaveFails(id, code, enabled) =>
                   /\ instances'[id].session = exitedSession(instances[id].session, code)
                   /\ Notified(id)' = Notified(id) + 1
                   /\ IF enabled
                      THEN [id |-> id, exitCode |-> code] \in pendingExit'
                      ELSE ws' = broadcastToSession(ws, id, ExitMsg(code))

\* C18 as claimed: a step in which any persistence operation fails, a read or a
\* listing included, returns what it returns when the operation succeeds.
C18_SameResult ==
    [][/\ WriteFaultsSwallowed
       /\ \A id \in FanIds :
             /\ GetSession(id, FALSE) => lastOp'.code = getSessionStatus(id, TRUE)
             /\ \A v \in DiskViewers :
                   WsConnectionReadFails(v, id) =>
                      ws'[v].inbox = IF readSessionLog(id) # <<>>
                                     THEN <<OutputMsg(readSessionLog(id))>> ELSE <<>>
      ]_vars

\* C18 as amended: a failed save, append or delete changes neither the response nor
\* the registry nor the broadcast; a failed read or listing raises no error and
\* changes no session either, but its caller gets the empty result (session not
\* found, no history sent).
C18_FaultsSwallowed ==
    [][/\ WriteFaultsSwallowed
       /\ \A id \in FanIds :
             /\ GetSession(id, FALSE) =>
                   /\ lastOp'.code = IF id \in Resident THEN 200 ELSE 404
                   /\ UNCHANGED <<registryVars, wsVars>>
             /\ \A v \in DiskViewers :
                   WsConnectionReadFails(v, id) =>
                      /\ v \in Connections(id)'
                      /\ ws'[v].readyState = "OPEN" /\ ws'[v].inbox = <<>>
                      /\ UNCHANGED registryVars
      ]_vars

\* The process of a session emitted output and exited by itself while neither the
\* log nor the metadata could be written: the record is completed, the file still
\* says running, there is no log, and the viewer has the output and then the exit
\* message.
C18_Witness ==
    \E id \in Resident :
        /\ pty[id].signals = 0 /\ ~pty[id].alive
        /\ instances[id].session.status = "completed"
        /\ id \in DOMAIN meta /\ meta[id].status = "running"
        /\ Emitted(id) # <<>> /\ id \notin DOMAIN logs
        /\ \E v \in DiskViewers :
              /\ ws[v].session = id
              /\ Len(ws[v].inbox) >= 2
              /\ ws[v].inbox[Len(ws[v].inbox)] = ExitMsg(0)

----------------------------------------------------------------------------
\* Properties of detaching viewers, of the log and of late exits (SpecFanout)

\* C21: when the channel of a viewer closes, only the viewer set of its session
\* changes: every session record, every buffer, every process (no signal is sent),
\* the files and the sockets of the other viewers are as before. A session without
\* viewers still buffers and logs every chunk its process emits.
C21_DetachFrame ==
    [][/\ \A v \in Viewers :
            (WsClosing(v) \/ WsClose(v)) =>
               /\ instances' = instances
               /\ pty' = pty
               /\ UNCHANGED diskVars
               /\ \A u \in Viewers \ {v} : ws'[u] = ws[u]
               /\ \A id \in FanIds :
                     Connections(id)' = IF WsClose(v) /\ id = ws[v].session
                                        THEN Connections(id) \ {v}
                                        ELSE Connections(id)
       /\ \A id \in DOMAIN pty :
            (OnData(id, Chunk(TotalEmitted + 1)) /\ Connections(id) = {}) =>
               /\ logs'[id] = readSessionLog(id) \o Chunk(TotalEmitted + 1)
               /\ id \in Resident =>
                     instances'[id].outputBuffer =
                        pushOutput(instances[id].outputBuffer, Chunk(TotalEmitted + 1))
      ]_vars

\* One viewer has closed and the other has not connected; the session is still
\* running, unsignalled and without viewers, and its log holds both chunks emitted.
C21_Witness ==
    \E id \in Resident :
        /\ ws[1].readyState = "CLOSED"
        /\ ws[2].readyState = "NEW"
        /\ Connections(id) = {}
        /\ instances[id].session.status = "running"
        /\ pty[id].alive /\ pty[id].signals = 0
        /\ Len(Emitted(id)) = 2
        /\ readSessionLog(id) = Join(Emitted(id))

\* s ends with t.
IsSuffix(t, s) ==
    Len(t) <= Len(s) /\ SubSeq(s, Len(s) - Len(t) + 1, Len(s)) = t

\* C24: the log of a resident session is the concatenation, in emission order, of
\* every chunk its process has emitted, the chunks the buffer has dropped included,
\* so what the buffer holds is a suffix of the log.
C24_LogIsComplete ==
    \A id \in Resident :
        /\ readSessionLog(id) = Join(Emitted(id))
        /\ IsSuffix(getSessionOutput(id), readSessionLog(id))

\* The buffer of a session has dropped its first chunk, which the log still has.
C24_Witness ==
    \E id \in Resident :
        /\ Len(Emitted(id)) > BufferCap
        /\ Len(readSessionLog(id)) > Len(getSessionOutput(id))
        /\ Head(readSessionLog(id)) # Head(getSessionOutput(id))

\* C29: the exit callback of a process whose session has been removed changes no
\* session of the registry and not the running count, writes no metadata and
\* attempts no notification.
C29_LateExitAfterRemove ==
    [][\A id \in (DOMAIN pty) \ Resident, code \in ExitCodes, enabled \in BOOLEAN :
          OnExit(id, code, enabled) =>
             /\ instances' = instances
             /\ getActiveSessionCount' = getActiveSessionCount
             /\ meta' = meta
             /\ notified' = notified
             /\ pendingExit' = pendingExit
      ]_vars

\* The process of a session that was removed while running has exited: the session
\* is not resident, has no metadata and no notification was attempted for it.
C29_Witness ==
    \E id \in (DOMAIN pty) \ Resident :
        /\ pty[id].signals = 1 /\ ~pty[id].alive
        /\ id \notin DOMAIN meta
        /\ Notified(id) = 0
        /\ lastOp.op = "delete" /\ lastOp.id = id

----------------------------------------------------------------------------
\* Processes against the admission ceiling (SpecCapacity)

\* The spawned processes that have not exited.
LiveProcesses == {id \in DOMAIN pty : pty[id].alive}

\* C27: at most MAX_PARALLEL_SESSIONS (5) spawned processes have not yet exited.
C27_LiveProcessCeiling == Cardinality(LiveProcesses) <= MAX_PARALLEL_SESSIONS

----------------------------------------------------------------------------
\* SpecInject: the delayed command write to the first session, which may have been
\* killed or deleted, or whose process may have exited, in the meantime.

NextInject ==
    \/ FanCreate
    \/ FanKill
    \/ FanDelete
    \/ Exit
    \/ Resume
    \/ Timer

SpecInject == Init /\ [][NextInject]_vars

RECURSIVE shParse(_, _)
\* A shell word as POSIX reads it: inside single quotes every character is literal
\* up to the next single quote; outside them a backslash makes the next character
\* literal.
shParse(word, quoted) ==
    IF word = <<>> THEN <<>>
    ELSE IF quoted
    THEN IF Head(word) = "'" THEN shParse(Tail(word), FALSE)
         ELSE <<Head(word)>> \o shParse(Tail(word), TRUE)
    ELSE IF Head(word) = "'" THEN shParse(Tail(word), TRUE)
    ELSE IF Head(word) = "\\" /\ Tail(word) # <<>>
    THEN <<Head(Tail(word))>> \o shParse(Tail(Tail(word)), FALSE)
    ELSE <<Head(word)>> \o shParse(Tail(word), FALSE)

\* The argument of an injected text: what stands between `command ` and '\r'.
Argument(text, command) == SubSeq(text, Len(command) + 2, Len(text) - 1)

\* The text as the claim words it, for an initialInput that is given.
Quoted(command, initialInput) ==
    command \o <<" ", "'">> \o escapeQuotes(initialInput.text) \o <<"'", "\r">>

\* C23 as claimed: the text written to a living process is the command and a
\* carriage return when no initialInput is given, and for every initialInput that
\* is given the command, a space and the quoted initialInput, whose POSIX reading
\* is the initialInput.
C23_InjectedText ==
    [][\A id \in timers, initialInput \in InitialInputs :
          (TimerFire(id, <<"c">>, initialInput) /\ pty[id].alive) =>
             IF ~initialInput.given
             THEN pty'[id].injected = <<"c", "\r">>
             ELSE /\ pty'[id].injected = Quoted(<<"c">>, initialInput)
                  /\ shParse(Argument(pty'[id].injected, <<"c">>), FALSE)
                        = initialInput.text
      ]_vars

\* C23 as amended: without a command nothing is written; with a command and no
\* initialInput, or an empty one, the command and a carriage return are written;
\* with a non-empty initialInput the command, a space and the quoted initialInput,
\* whose POSIX reading is the initialInput.
C23_InjectedTextNonEmpty ==
    [][\A id \in timers, command \in Commands, initialInput \in InitialInputs :
          (TimerFire(id, command, initialInput) /\ pty[id].alive) =>
             IF command = <<>>
             THEN pty' = pty
             ELSE IF ~initialInput.given \/ initialInput.text = <<>>
             THEN pty'[id].injected = command \o <<"\r">>
             ELSE /\ pty'[id].injected = Quoted(command, initialInput)
                  /\ shParse(Argument(pty'[id].injected, command), FALSE)
                        = initialInput.text
      ]_vars

\* The initialInput `'\` was injected as c ''\''\' and a carriage return.
C23_Witness ==
    \E id \in DOMAIN pty :
        pty[id].injected =
            <<"c", " ", "'">> \o <<"'", "\\", "'", "'">> \o <<"\\">> \o <<"'", "\r">>

\* C28: the delayed write changes a process only when its session is resident with
\* status running at that time.
C28_WriteOnlyIfRunning ==
    [][\A id \in timers, command \in Commands, initialInput \in InitialInputs :
          (TimerFire(id, command, initialInput) /\ pty' # pty) =>
             IsRunning(instances, id)
      ]_vars

\* ---------------------------------------------------------------------------
\* GET /sessions: the session list
\* ---------------------------------------------------------------------------

\* The sessions Map is iterated in insertion order, which is the order of creation.
RECURSIVE getAllSessions(_, _)
getAllSessions(inst, ids) ==
    IF ids = {}
    THEN <<>>
    ELSE LET first == CHOOSE x \in ids : \A y \in ids : x <= y IN
         <<[id |-> first, session |-> inst[first].session]>>
             \o getAllSessions(inst, ids \ {first})

\* One record per metadata file, newest creation first (files created at the same
\* time come in directory order, taken here as the order of their ids).
RECURSIVE getAllSavedSessions(_, _)
getAllSavedSessions(m, ids) ==
    IF ids = {}
    THEN <<>>
    ELSE LET first == CHOOSE x \in ids : \A y \in ids :
                          \/ m[x].createdAt > m[y].createdAt
                          \/ m[x].createdAt = m[y].createdAt /\ x <= y IN
         <<[id |-> first, session |-> m[first]]>>
             \o getAllSavedSessions(m, ids \ {first})

allSessionsUnfiltered(activeSessions, savedSessions) == activeSessions \o savedSessions

allSessions(activeSessions, savedSessions) ==
    LET activeIds == {activeSessions[i].id : i \in DOMAIN activeSessions} IN
    activeSessions \o SelectSeq(savedSessions, LAMBDA s : s.id \notin activeIds)

getSessionsResponse ==
    [success |-> TRUE,
     sessions |-> allSessions(getAllSessions(instances, Resident),
                              getAllSavedSessions(meta, DOMAIN meta)),
     activeCount |-> getActiveSessionCount,
     canCreateNew |-> canCreateSession]

GetSessions ==
    /\ up
    /\ lastOp' = Result("list", 0, TRUE, Len(getSessionsResponse.sessions))
    /\ UNCHANGED <<renderer, registryVars, now, diskVars, wsVars, pendingExit, notified,
                   emitted, up>>

\* The service is started again after a shutdown: a new process with an empty
\* registry and no connections, the same log directory, and none of the old
\* process's children, timers or suspended handlers.
Start ==
    /\ ~up
    /\ up' = TRUE
    /\ instances' = EmptyMap
    /\ pty' = [id \in DOMAIN pty |-> [pty[id] EXCEPT !.alive = FALSE]]
    /\ timers' = {}
    /\ pendingExit' = {}
    /\ sessionConnections' = EmptyMap
    /\ ws' = [v \in Viewers |-> NewSocket]
    /\ lastOp' = Result("start", 0, TRUE, 0)
    /\ UNCHANGED <<renderer, nextId, now, diskVars, notified, emitted>>

\* Only the first MaxSessions sessions are killed or exit, the service is shut down
\* only before its MaxSessions-th session, and the clock stands still.
ListMayEnd(id) == id <= MaxSessions

ListCreate ==
    \E valid, spawnOk \in BOOLEAN :
        /\ nextId < MaxIds \/ ~canCreateSession
        /\ PostSessions(valid, spawnOk)
ListKill == \E id \in Ids : ListMayEnd(id) /\ PostKill(id)
ListExit ==
    \E id \in DOMAIN pty, code \in ExitCodes : ListMayEnd(id) /\ OnExit(id, code, FALSE)

ListSigint == nextId < MaxSessions /\ Sigint

NextList == ListCreate \/ ListKill \/ ListExit \/ ListSigint \/ Start \/ GetSessions

SpecList == Init /\ [][NextList]_vars

ListedIds == {getSessionsResponse.sessions[i].id : i \in DOMAIN getSessionsResponse.sessions}

MetaCreate == \E valid, spawnOk \in BOOLEAN : nextId = 0 /\ PostSessions(valid, spawnOk)

NextMeta ==
    MetaCreate \/ FanKill \/ FanDelete \/ Exit \/ Resume \/ Tick \/ Sigint \/ Start

SpecMeta == Init /\ [][NextMeta]_vars

SameOutcome(a, b) ==
    /\ a.status = b.status
    /\ a.completedAt = b.completedAt
    /\ a.exitCode = b.exitCode

\* C25: the metadata file is written at creation with status running; the exit of a
\* resident session's process rewrites it with the status, completedAt and exitCode
\* of the in-memory record; and from then on the file and the in-memory record of
\* a resident session agree on these three fields.
C25_MetaFollowsExit ==
    [][/\ (PostSessions(TRUE, TRUE) /\ lastOp'.ok) =>
             /\ lastOp'.id \in DOMAIN meta'
             /\ meta'[lastOp'.id].status = "running"
       /\ \A id \in Resident, code \in ExitCodes, enabled \in BOOLEAN :
             OnExit(id, code, enabled) =>
                /\ id \in DOMAIN meta'
                /\ meta'[id].status = (IF code = 0 THEN "completed" ELSE "failed")
                /\ meta'[id].completedAt = now
                /\ meta'[id].exitCode = code
                /\ SameOutcome(meta'[id], instances'[id].session)
       /\ \A id \in Resident' :
             (id \in DOMAIN pty' /\ ~pty'[id].alive /\ id \in DOMAIN meta') =>
                SameOutcome(meta'[id], instances'[id].session)
      ]_vars

\* A session killed at time 0, whose file still said running, exited with code 0 at
\* time 1, and the file and the record both say completed at 1 with code 0.
C25_Witness ==
    \E id \in Resident :
        /\ pty[id].signals = 1 /\ ~pty[id].alive
        /\ id \in DOMAIN meta
        /\ meta[id] = instances[id].session
        /\ meta[id].status = "completed" /\ meta[id].completedAt = 1 /\ meta[id].exitCode = 0

\* ---------------------------------------------------------------------------
\* The exit message under a running event loop
\* ---------------------------------------------------------------------------

\* The exit handlers that can be suspended at `await notifyTaskCompleted`.
PendingExits == [id : 1..MaxSessions, exitCode : ExitCodes]

NextLive ==
    FanCreate \/ FanKill \/ FanDelete \/ Exit \/ Resume \/ Connect \/ Closing \/ Close

\* The promise of sendWeChatMessage is resolved by the response, by a request
\* error or by the 10 s timeout, and the event loop then resumes the handler.
SpecLive ==
    /\ Init
    /\ [][NextLive]_vars
    /\ \A p \in PendingExits : WF_vars(ExitContinuation(p))

OpenOn(v, id) == v \in Connections(id) /\ ws[v].readyState = "OPEN"

Delivered(v, code) == \E i \in DOMAIN ws[v].inbox : ws[v].inbox[i] = ExitMsg(code)

DESKTOP_MAX_PARALLEL_SESSIONS == 5

\* A registry: the instances map, the processes, the ids given out and the pending
\* delayed writes.
Registry == [instances |-> instances, pty |-> pty, nextId |-> nextId, timers |-> timers]

desktopGetActiveSessionCount(reg) ==
    Cardinality({i \in DOMAIN reg.instances : reg.instances[i].session.status = "running"})

desktopCanCreateSession(reg) ==
    desktopGetActiveSessionCount(reg) < DESKTOP_MAX_PARALLEL_SESSIONS

\* createSession: null at the ceiling and when pty.spawn throws (the id is drawn
\* before the spawn); otherwise the new instance, its process and its timer.
desktopCreateSession(reg, spawnOk) ==
    IF ~desktopCanCreateSession(reg)
    THEN reg @@ [id |-> 0]
    ELSE LET sessionId == reg.nextId + 1 IN
         IF ~spawnOk
         THEN [reg EXCEPT !.nextId = sessionId] @@ [id |-> 0]
         ELSE [instances |->
                   MapSet(reg.instances, sessionId,
                          [session |-> [status |-> "running", createdAt |-> now,
                                        completedAt |-> Undefined, exitCode |-> Undefined],
                           outputBuffer |-> <<>>]),
               pty |-> MapSet(reg.pty, sessionId,
                              [alive |-> TRUE, signals |-> 0, writes |-> 0, resizes |-> 0,
                               injected |-> <<>>]),
               nextId |-> sessionId,
               timers |-> reg.timers \cup {sessionId},
               id |-> sessionId]

desktopWriteToSession(reg, sessionId, throws) ==
    IF sessionId \notin DOMAIN reg.instances
          \/ reg.instances[sessionId].session.status # "running"
    THEN [pty |-> reg.pty, result |-> FALSE]
    ELSE IF throws
    THEN [pty |-> reg.pty, result |-> FALSE]
    ELSE [pty |-> [reg.pty EXCEPT ![sessionId].writes = @ + 1], result |-> TRUE]

desktopResizeSession(reg, sessionId, throws) ==
    IF sessionId \notin DOMAIN reg.instances
          \/ reg.instances[sessionId].session.status # "running"
    THEN [pty |-> reg.pty, result |-> FALSE]
    ELSE IF throws
    THEN [pty |-> reg.pty, result |-> FALSE]
    ELSE [pty |-> [reg.pty EXCEPT ![sessionId].resizes = @ + 1], result |-> TRUE]

desktopKillSessionAlways(reg, sessionId) ==
    IF sessionId \notin DOMAIN reg.instances
    THEN [instances |-> reg.instances, pty |-> reg.pty, result |-> FALSE]
    ELSE [instances |-> [reg.instances EXCEPT ![sessionId].session.status = "failed",
                                              ![sessionId].session.completedAt = now],
          pty |-> [reg.pty EXCEPT ![sessionId].signals = @ + 1],
          result |-> TRUE]

desktopKillSession(reg, sessionId) ==
    IF sessionId \notin DOMAIN reg.instances
    THEN [instances |-> reg.instances, pty |-> reg.pty, result |-> FALSE]
    ELSE IF reg.instances[sessionId].session.status = "running"
    THEN [instances |-> [reg.instances EXCEPT ![sessionId].session.status = "failed",
                                              ![sessionId].session.completedAt = now],
          pty |-> [reg.pty EXCEPT ![sessionId].signals = @ + 1],
          result |-> TRUE]
    ELSE [instances |-> reg.instances, pty |-> reg.pty, result |-> TRUE]

desktopRemoveSession(reg, sessionId) ==
    IF sessionId \notin DOMAIN reg.instances
    THEN [instances |-> reg.instances, pty |-> reg.pty, result |-> FALSE]
    ELSE LET killed == IF reg.instances[sessionId].session.status = "running"
                       THEN desktopKillSession(reg, sessionId)
                       ELSE [instances |-> reg.instances, pty |-> reg.pty, result |-> TRUE]
         IN [instances |-> MapDelete(killed.instances, sessionId),
             pty |-> killed.pty,
             result |-> TRUE]

RECURSIVE desktopShutdownFrom(_, _)
desktopShutdownFrom(reg, ids) ==
    IF ids = {}
    THEN reg
    ELSE LET sessionId == CHOOSE i \in ids : \A j \in ids : i <= j
             killed == desktopKillSession(reg, sessionId)
         IN desktopShutdownFrom([reg EXCEPT !.instances = killed.instances,
                                            !.pty = killed.pty],
                                ids \ {sessionId})

desktopShutdown(reg) ==
    [instances |-> EmptyMap,
     pty |-> desktopShutdownFrom(reg, DOMAIN reg.instances).pty]

\* onData of a process: the buffer of its instance after the push and the shift.
desktopOnDataBuffer(outputBuffer, data) ==
    LET pushed == Append(outputBuffer, data) IN
    IF Len(pushed) > BufferCap THEN Tail(pushed) ELSE pushed

\* onExit of a process: the session record of its instance.
desktopOnExitSession(session, exitCode) ==
    [session EXCEPT !.status = IF exitCode = 0 THEN "completed" ELSE "failed",
                    !.completedAt = now,
                    !.exitCode = exitCode]

\* The life cycle up to the ceiling, with output from the first process.
SurfaceExit ==
    \E id \in DOMAIN pty, code \in ExitCodes : MayEnd(id) /\ OnExit(id, code, FALSE)
SurfaceData ==
    \E id \in DOMAIN pty :
        id = 1 /\ TotalEmitted <= BufferCap /\ OnData(id, Chunk(TotalEmitted + 1))

NextSurface == CapCreate \/ CapKill \/ CapDelete \/ SurfaceExit \/ SurfaceData \/ Sigint

SpecSurface == Init /\ [][NextSurface]_vars

\* C26: from the same registry the desktop PtyManager and the service PtyManager
\* return the same results and leave the same instances (session records and
\* output buffers) and the same processes, for every call of createSession,
\* writeToSession, resizeSession, killSession, removeSession and shutdown and for
\* every data and exit callback; started from the same empty registry they
\* therefore stay equal call by call.
C26_SameSurface ==
    /\ desktopGetActiveSessionCount(Registry) = getActiveSessionCount
    /\ desktopCanCreateSession(Registry) = canCreateSession
    /\ \A spawnOk \in BOOLEAN :
          desktopCreateSession(Registry, spawnOk) = createSession(spawnOk)
    /\ \A id \in 1..(nextId + 1) :
          /\ \A throws \in BOOLEAN :
                /\ desktopWriteToSession(Registry, id, throws)
                      = [pty |-> writtenPty(instances, pty, id, throws),
                         result |-> writeToSessionResult(instances, id, throws)]
                /\ desktopResizeSession(Registry, id, throws)
                      = [pty |-> resizedPty(instances, pty, id, throws),
                         result |-> resizeSessionResult(instances, id, throws)]
          /\ desktopKillSession(Registry, id)
                = [instances |-> killedInstances(instances, id),
                   pty |-> killedPty(instances, pty, id),
                   result |-> killSessionResult(instances, id)]
          /\ desktopRemoveSession(Registry, id)
                = [instances |-> removedInstances(instances, id),
                   pty |-> killedPty(instances, pty, id),
                   result |-> id \in Resident]
    /\ desktopShutdown(Registry)
          = [instances |-> EmptyMap, pty |-> shutdownPty(instances, pty, Resident)]
    /\ \A id \in Resident :
          /\ \A n \in 1..(MaxChunks + 1) :
                desktopOnDataBuffer(instances[id].outputBuffer, Chunk(n))
                    = pushOutput(instances[id].outputBuffer, Chunk(n))
          /\ \A code \in ExitCodes :
                desktopOnExitSession(instances[id].session, code)
                    = exitedSession(instances[id].session, code)

\* At the ceiling, where a create was refused, the first session has a full buffer
\* that has dropped a chunk, and one session has been killed and removed.
C26_Witness ==
    /\ lastOp = Result("create", 0, FALSE, 429)
    /\ 1 \in Resident
    /\ Len(instances[1].outputBuffer) = BufferCap
    /\ Len(Emitted(1)) > BufferCap
    /\ \E id \in DOMAIN pty : id \notin Resident /\ pty[id].signals = 1

====
